---- MODULE Spec2Model ----
(***************************************************************************)
(* A model of cat_corr.get_categorical_corr and of the two matrix builders *)
(* it dispatches to (src/cat_corr/cat_corr.py).                            *)
(*                                                                         *)
(* One behaviour is one call.  The arguments are drawn in Init; pc is the  *)
(* position of the call in the code.  The statistics primitives            *)
(* (scipy association, dython theils_u) are external: each call of one     *)
(* returns a value drawn from the values the primitive can produce.        *)
(*                                                                         *)
(* Floats are modelled by integers: 0 is 0.0, 1 is 1.0, NaN is a value     *)
(* that compares false with everything (see greater).                      *)
(*                                                                         *)
(* A pandas DataFrame is the record [columns, index, cells]; cells[c][r]   *)
(* is what Python writes output[c][r]: DataFrame.__getitem__ selects the   *)
(* COLUMN labelled c, and indexing that Series selects the ROW labelled r. *)
(***************************************************************************)
EXTENDS Integers, Sequences, FiniteSets

\* ---------------------------------------------------------------- bounds
NumCols == 3
MaxFeatures == 3

\* ---------------------------------------------------------------- values
NaN == 99

ColumnPool == <<"A", "B", "C", "D", "E">>

\* data.columns of the table passed in
Columns == SubSeq(ColumnPool, 1, NumCols)

Range(s) == {s[i] : i \in 1..Len(s)}

\* what a symmetric statistic may return: a value of [0, 1], or NaN when the
\* cross-tabulation is degenerate
SymVals == {0, 1, NaN}

\* what theils_u may return: a value of [0, 1]
TheilVals == {0, 1}

\* the thresholds tried, as (type, value)
ThrArgs ==
    {[type |-> "float", v |-> x] : x \in {0 - 1, 0, 1, NaN}}
        \cup {[type |-> "int", v |-> 1]}

Methods == {"cramer", "tschuprow", "pearson", "theil"}

MethodArgs == Methods \cup {"spearman"}

DataArgs ==
    {[type |-> "DataFrame", columns |-> Columns], [type |-> "dict", columns |-> <<>>]}

\* elements a features argument may hold: column names, a string that is no
\* column, and a value that is no string
StrElem(s) == [type |-> "str", v |-> s]

Elems ==
    [i \in 1..NumCols |-> StrElem(Columns[i])]
        \o <<StrElem("Z"), [type |-> "int", v |-> "7"]>>

Reverse(s) == [i \in 1..Len(s) |-> s[Len(s) + 1 - i]]

\* the subsequences of s of at most n elements
RECURSIVE SubSeqs(_, _)
SubSeqs(s, n) ==
    IF s = <<>> \/ n = 0
    THEN {<<>>}
    ELSE SubSeqs(Tail(s), n)
            \cup {<<Head(s)>> \o t : t \in SubSeqs(Tail(s), n - 1)}

\* the features arguments tried: None, a value that is no sequence, and lists
\* and tuples of at most MaxFeatures distinct elements (the data model's
\* unique names), in table order or in reverse table order
FeatureArgs ==
    {[kind |-> "None", elems |-> <<>>], [kind |-> "int", elems |-> <<>>]}
        \cup {[kind |-> k, elems |-> s] :
                k \in {"list", "tuple"},
                s \in SubSeqs(Elems, MaxFeatures)
                        \cup SubSeqs(Reverse(Elems), MaxFeatures)}

NoFrame == [columns |-> <<>>, index |-> <<>>, cells |-> <<>>]

NoErr == [kind |-> "none", at |-> "none"]

VARIABLES
    data,           \* argument data
    featuresArg,    \* argument features, as passed
    method,         \* argument method
    thr,            \* argument thr
    pc,             \* position in the code
    features,       \* local features (rebound at line 49)
    output,         \* the builder's matrix
    combs,          \* the builder's iterator, as the list it yields
    idx,            \* next position in combs
    corr_features,  \* the returned dict
    err,            \* the exception raised, and where
    colsAccessed,   \* data.columns or data[...] was evaluated
    builder,        \* the builder invoked
    calls,          \* the primitive's calls so far: <<first, second, result>>
    writes          \* how many times each cell [c][r] was assigned

vars ==
    <<data, featuresArg, method, thr, pc, features, output, combs, idx,
      corr_features, err, colsAccessed, builder, calls, writes>>

Init ==
    /\ data \in DataArgs
    /\ featuresArg \in FeatureArgs
    /\ method \in MethodArgs
    /\ thr \in ThrArgs
    /\ pc = "check_data"
    /\ features = featuresArg
    /\ output = NoFrame
    /\ combs = <<>>
    /\ idx = 1
    /\ corr_features = <<>>
    /\ err = NoErr
    /\ colsAccessed = FALSE
    /\ builder = "none"
    /\ calls = <<>>
    /\ writes = <<>>

\* ------------------------------------------------------------ validation
Raise(kind) ==
    /\ pc' = "raised"
    /\ err' = [kind |-> kind, at |-> pc]

\* isinstance(data, pd.DataFrame)
IsDataFrame(d) == d.type = "DataFrame"

\* isinstance(features, list)
IsListTupleToo(f) == f.kind \in {"list", "tuple"}

IsList(f) == f.kind = "list"

\* isinstance(feature, str)
IsStr(e) == e.type = "str"

\* any(not isinstance(feature, str) for feature in features)
AnyNonStr(f) == \E i \in 1..Len(f.elems) : ~IsStr(f.elems[i])

\* method in ['cramer', 'tschuprow', 'pearson', 'theil']
MethodKnown(m) == m \in Methods

\* isinstance(thr, float)
IsFloatIntToo(t) == t.type \in {"float", "int"}

IsFloat(t) == t.type = "float"

\* lines 46-47
CheckData ==
    /\ pc = "check_data"
    /\ IF ~IsDataFrame(data)
       THEN Raise("TypeError")
       ELSE pc' = "default_features" /\ UNCHANGED err
    /\ UNCHANGED <<data, featuresArg, method, thr, features, output, combs, idx,
                   corr_features, colsAccessed, builder, calls, writes>>

\* lines 48-49: features = data.columns is a pandas Index, not a list
DefaultFeatures ==
    /\ pc = "default_features"
    /\ IF features.kind = "None"
       THEN /\ features' =
                [kind |-> "Index",
                 elems |-> [i \in 1..Len(data.columns) |-> StrElem(data.columns[i])]]
            /\ colsAccessed' = TRUE
       ELSE UNCHANGED <<features, colsAccessed>>
    /\ pc' = "check_list"
    /\ UNCHANGED <<data, featuresArg, method, thr, output, combs, idx,
                   corr_features, err, builder, calls, writes>>

\* lines 50-51
CheckList ==
    /\ pc = "check_list"
    /\ IF ~IsList(features)
       THEN Raise("TypeError")
       ELSE pc' = "check_str" /\ UNCHANGED err
    /\ UNCHANGED <<data, featuresArg, method, thr, features, output, combs, idx,
                   corr_features, colsAccessed, builder, calls, writes>>

\* lines 52-53
CheckStr ==
    /\ pc = "check_str"
    /\ IF AnyNonStr(features)
       THEN Raise("TypeError")
       ELSE pc' = "check_method" /\ UNCHANGED err
    /\ UNCHANGED <<data, featuresArg, method, thr, features, output, combs, idx,
                   corr_features, colsAccessed, builder, calls, writes>>

\* lines 54-55
CheckMethod ==
    /\ pc = "check_method"
    /\ IF ~MethodKnown(method)
       THEN Raise("TypeError")
       ELSE pc' = "check_thr" /\ UNCHANGED err
    /\ UNCHANGED <<data, featuresArg, method, thr, features, output, combs, idx,
                   corr_features, colsAccessed, builder, calls, writes>>

\* lines 56-57
CheckThr ==
    /\ pc = "check_thr"
    /\ IF ~IsFloat(thr)
       THEN Raise("TypeError")
       ELSE pc' = "dispatch" /\ UNCHANGED err
    /\ UNCHANGED <<data, featuresArg, method, thr, features, output, combs, idx,
                   corr_features, colsAccessed, builder, calls, writes>>

\* -------------------------------------------------------------- builders
\* the names held by a list of strings
Names(f) == [i \in 1..Len(f.elems) |-> f.elems[i].v]

\* np.eye(n): 1.0 on the diagonal, 0.0 elsewhere
EyeZeros(c, r) == 0

Eye(c, r) == IF c = r THEN 1 ELSE 0

\* pd.DataFrame(np.eye(len(cols)), columns=cols, index=cols)
NewFrame(cols) ==
    [columns |-> cols,
     index |-> cols,
     cells |-> [c \in Range(cols) |-> [r \in Range(cols) |-> Eye(c, r)]]]

\* output[c][r] = v: the column Series of c is a view of the frame, the
\* assignment writes through to the frame
SetItem(o, c, r, v) == [o EXCEPT !.cells[c][r] = v]

\* the pairs of positions of 1..n, in the order itertools yields them
RECURSIVE InOrder(_, _)
InOrder(S, n) ==
    IF S = {}
    THEN <<>>
    ELSE LET m == CHOOSE p \in S :
                    \A q \in S : p[1] * (n + 1) + p[2] <= q[1] * (n + 1) + q[2]
         IN  <<m>> \o InOrder(S \ {m}, n)

PairsOf(cols, S) ==
    LET ps == InOrder(S, Len(cols))
    IN  [k \in 1..Len(ps) |-> <<cols[ps[k][1]], cols[ps[k][2]]>>]

\* itertools.combinations(cols, r=2)
combinations(cols) ==
    PairsOf(cols, {p \in (1..Len(cols)) \X (1..Len(cols)) : p[1] < p[2]})

\* itertools.permutations(cols, r=2)
permutations(cols) ==
    PairsOf(cols, {p \in (1..Len(cols)) \X (1..Len(cols)) : p[1] # p[2]})

\* lines 59-62, 100-108, 142-150: data[features] raises KeyError for a name
\* that is no column; the builder then makes its identity matrix and iterator
Dispatch ==
    /\ pc = "dispatch"
    /\ colsAccessed' = TRUE
    /\ IF \E i \in 1..Len(features.elems) : features.elems[i].v \notin Range(data.columns)
       THEN /\ Raise("KeyError")
            /\ UNCHANGED <<output, combs, builder, writes>>
       ELSE /\ output' = NewFrame(Names(features))
            /\ writes' = [c \in Range(Names(features)) |->
                            [r \in Range(Names(features)) |-> 0]]
            /\ IF method # "theil"
               THEN /\ builder' = "get_symmetrical_metric"
                    /\ combs' = combinations(Names(features))
                    /\ pc' = "sym_loop"
               ELSE /\ builder' = "get_asymmetrical_metric"
                    /\ combs' = permutations(Names(features))
                    /\ pc' = "asym_loop"
            /\ UNCHANGED err
    /\ UNCHANGED <<data, featuresArg, method, thr, features, idx,
                   corr_features, calls>>

\* line 118: output[feat_a][feat_b], output[feat_b][feat_a] = res, res
SymWriteOneSided(o, a, b, res) == SetItem(o, a, b, res)

SymWrite(o, a, b, res) == SetItem(SetItem(o, a, b, res), b, a, res)

\* line 156: output[feat_a][feat_b] = theils_u(data[feat_a], data[feat_b])
AsymWriteMirrored(o, a, b, res) == SetItem(SetItem(o, a, b, res), b, a, res)

AsymWrite(o, a, b, res) == SetItem(o, a, b, res)

\* the cells in which o and n differ, or the cells named
Changed(o, n) ==
    {p \in Range(o.columns) \X Range(o.columns) : o.cells[p[1]][p[2]] # n.cells[p[1]][p[2]]}

Count(w, o, n, named) ==
    [c \in DOMAIN w |->
        [r \in DOMAIN w[c] |->
            IF <<c, r>> \in named \cup Changed(o, n) THEN w[c][r] + 1 ELSE w[c][r]]]

\* lines 110-118: one iteration of the symmetric builder's loop
SymIter ==
    /\ pc = "sym_loop"
    /\ idx <= Len(combs)
    /\ \E res \in SymVals :
         LET feat_a == combs[idx][1]
             feat_b == combs[idx][2]
             new == SymWrite(output, feat_a, feat_b, res)
         IN  /\ output' = new
             /\ calls' = Append(calls, <<feat_a, feat_b, res>>)
             /\ writes' = Count(writes, output, new,
                                {<<feat_a, feat_b>>, <<feat_b, feat_a>>})
    /\ idx' = idx + 1
    /\ UNCHANGED <<data, featuresArg, method, thr, pc, features, combs,
                   corr_features, err, colsAccessed, builder>>

\* lines 152-159: one iteration of the asymmetric builder's loop
AsymIter ==
    /\ pc = "asym_loop"
    /\ idx <= Len(combs)
    /\ \E res \in TheilVals :
         LET feat_a == combs[idx][1]
             feat_b == combs[idx][2]
             new == AsymWrite(output, feat_a, feat_b, res)
         IN  /\ output' = new
             /\ calls' = Append(calls, <<feat_a, feat_b, res>>)
             /\ writes' = Count(writes, output, new, {<<feat_a, feat_b>>})
    /\ idx' = idx + 1
    /\ UNCHANGED <<data, featuresArg, method, thr, pc, features, combs,
                   corr_features, err, colsAccessed, builder>>

\* ----------------------------------------------------------- extraction
\* np.greater(x, t) on floats: a comparison with NaN is false
greaterOrEqual(x, t) == x # NaN /\ t # NaN /\ x >= t

greaterNaNBlind(x, t) == x > t

greater(x, t) == x # NaN /\ t # NaN /\ x > t

\* output[x]: the column labelled x, a Series over the row labels
GetItemRow(o, x) ==
    [index |-> o.index, at |-> [r \in Range(o.index) |-> o.cells[r][x]]]

GetItem(o, x) == [index |-> o.index, at |-> o.cells[x]]

\* series.drop(x, axis=0)
Drop(s, x) == [index |-> SelectSeq(s.index, LAMBDA l : l # x), at |-> s.at]

\* any(np.greater(series, t))
AnyGreater(s, t) == \E i \in 1..Len(s.index) : greater(s.at[s.index[i]], t)

\* lines 65-67
high_corr(o, names, t) ==
    SelectSeq(names, LAMBDA x : AnyGreater(Drop(GetItem(o, x), x), t))

\* features[np.where(keep)]: the names at the positions where keep is true
RECURSIVE Where(_, _, _)
Where(names, keep, p) ==
    IF p > Len(names)
    THEN <<>>
    ELSE (IF keep[p] THEN <<names[p]>> ELSE <<>>) \o Where(names, keep, p + 1)

\* lines 71-73, for one var
CorrOf(o, names, var, t) ==
    LET series == GetItem(o, var)
        cond == [p \in 1..Len(series.index) |-> greater(series.at[series.index[p]], t)]
        not_itself == [p \in 1..Len(names) |-> names[p] # var]
    IN  Where(names, [p \in 1..Len(names) |-> cond[p] /\ not_itself[p]], 1)

\* lines 120, 161 (the builder returns output) and 64-75
Extract ==
    /\ pc \in {"sym_loop", "asym_loop"}
    /\ idx > Len(combs)
    /\ corr_features' =
         [var \in Range(high_corr(output, Names(features), thr.v)) |->
            CorrOf(output, Names(features), var, thr.v)]
    /\ pc' = "done"
    /\ UNCHANGED <<data, featuresArg, method, thr, features, output, combs, idx,
                   err, colsAccessed, builder, calls, writes>>

Next ==
    \/ CheckData
    \/ DefaultFeatures
    \/ CheckList
    \/ CheckStr
    \/ CheckMethod
    \/ CheckThr
    \/ Dispatch
    \/ SymIter
    \/ AsymIter
    \/ Extract

Spec == Init /\ [][Next]_vars

\* ------------------------------------------------------------ vocabulary
Symmetric == method \in {"cramer", "tschuprow", "pearson"}

Returned == pc = "done"

Raised == pc = "raised"

ValidationPoints ==
    {"check_data", "default_features", "check_list", "check_str", "check_method",
     "check_thr"}

Requested == Range(output.columns)

\* the positions and exceptions the call can be at
TypeOK ==
    /\ pc \in ValidationPoints \cup
              {"dispatch", "sym_loop", "asym_loop", "done", "raised"}
    /\ err.kind \in {"none", "TypeError", "KeyError"}

\* the names stored for key k in the returned dict, as a set
CorrSet(k) == IF k \in DOMAIN corr_features THEN Range(corr_features[k]) ELSE {}

\* DataFrame.loc[r, c]: the entry in the row labelled r, the column labelled c
Loc(o, r, c) == o.cells[c][r]

\* --------------------------------------------------------------- claim C1
\* C1: on return, with matrix[k][j] read as the code reads it (output[k][j]),
\* feature k is a key of the returned map if and only if some other requested
\* feature j has output[k][j] > thr strictly, and the names stored for k are
\* exactly those j; no key maps to nothing, no value holds its own key, and
\* an entry equal to thr (or NaN) is left out.
ExceedSet(k) ==
    {j \in Requested \ {k} :
        /\ output.cells[k][j] # NaN
        /\ thr.v # NaN
        /\ output.cells[k][j] > thr.v}

C1_MapIsExceedSet ==
    Returned =>
        /\ DOMAIN corr_features \subseteq Requested
        /\ \A k \in Requested :
            /\ (k \in DOMAIN corr_features) <=> (ExceedSet(k) # {})
            /\ CorrSet(k) = ExceedSet(k)
            /\ k \notin CorrSet(k)
            /\ \A j \in Requested : output.cells[k][j] = thr.v => j \notin CorrSet(k)

C1_Witness ==
    /\ Returned
    /\ \E k, j, l \in Requested :
        /\ Cardinality({k, j, l}) = 3
        /\ CorrSet(k) = {j}
        /\ output.cells[k][l] = thr.v
        /\ l \notin DOMAIN corr_features

\* --------------------------------------------------------------- claim C2
\* C2: for a symmetric method the matrix is symmetric at every point of the
\* builder's loop, and on return every unordered pair of distinct features
\* was given to the statistic exactly once and the value it returned is the
\* value held by both cells (the same stored value, NaN included).
CallsOn(i, j) == {n \in 1..Len(calls) : {calls[n][1], calls[n][2]} = {i, j}}

C3_SquareLabelledUnitDiagonal ==
    pc \in {"sym_loop", "asym_loop", "done"} =>
        /\ output.columns = [i \in 1..Len(featuresArg.elems) |-> featuresArg.elems[i].v]
        /\ output.index = output.columns
        /\ DOMAIN output.cells = Range(output.columns)
        /\ \A c \in Requested :
            /\ DOMAIN output.cells[c] = Range(output.index)
            /\ output.cells[c][c] = 1
            /\ writes[c][c] = 0

C3_Witness ==
    /\ Returned
    /\ Len(output.columns) = 3
    /\ output.columns[1] = Columns[3]
    /\ output.columns[3] = Columns[1]
    /\ \A i, j \in Requested : i # j => writes[i][j] > 0
    /\ \E i, j \in Requested : i # j /\ output.cells[i][j] = 1

\* --------------------------------------------------------------- claim C4
\* C4: a call with a table, a recognized method, a float threshold and
\* features omitted (None) succeeds, and its matrix is labelled by all the
\* columns of the table in table order.
C4_DefaultFeaturesSucceed ==
    ( /\ featuresArg.kind = "None"
      /\ data.type = "DataFrame"
      /\ method \in {"cramer", "tschuprow", "pearson", "theil"}
      /\ thr.type = "float"
      /\ pc \in {"done", "raised"} )
        => /\ Returned
           /\ output.columns = data.columns
           /\ output.index = data.columns

\* --------------------------------------------------------------- claim C5
\* C5: a call whose data is no table, whose method is not recognized or
\* whose thr is no float never gets past validation: no builder is invoked,
\* nothing is built or returned, the only exception it raises is a
\* TypeError; and when data is no table no column of it is accessed.
BadArgs ==
    \/ data.type # "DataFrame"
    \/ method \notin {"cramer", "tschuprow", "pearson", "theil"}
    \/ thr.type # "float"

C5_FailFast ==
    BadArgs =>
        /\ pc \in ValidationPoints \cup {"raised"}
        /\ builder = "none"
        /\ output = NoFrame
        /\ calls = <<>>
        /\ corr_features = <<>>
        /\ Raised => err.kind = "TypeError" /\ err.at \in ValidationPoints
        /\ data.type # "DataFrame" => ~colsAccessed

C5_Witness ==
    /\ Raised
    /\ err = [kind |-> "TypeError", at |-> "check_thr"]
    /\ thr.type = "int"
    /\ data.type = "DataFrame"
    /\ featuresArg.kind = "list"
    /\ Len(featuresArg.elems) = 2
    /\ method = "theil"

\* --------------------------------------------------------------- claim C6
\* C6: every failing call fails with a TypeError raised at validation time,
\* before any computation begins; a features list naming a string that is
\* no column of the table included.
C6_OnlyTypeErrorAtValidation ==
    Raised => err.kind = "TypeError" /\ err.at \in ValidationPoints

\* --------------------------------------------------------------- claim C7
\* C7 (as amended): a provided features argument passes the validation of
\* features exactly when it is a list whose elements are all strings; it is
\* rejected, with a TypeError, exactly when it is not a list or some element
\* is not a string.
Provided == featuresArg.kind # "None" /\ data.type = "DataFrame"

AllStrings == \A i \in 1..Len(featuresArg.elems) : featuresArg.elems[i].type = "str"

FeaturesPassed ==
    \/ pc \in {"check_method", "check_thr", "dispatch", "sym_loop", "asym_loop", "done"}
    \/ Raised /\ err.at \in {"check_method", "check_thr", "dispatch"}

FeaturesRejected == Raised /\ err.at \in {"check_list", "check_str"}

C7_ListOfStringsOnly ==
    Provided =>
        /\ FeaturesPassed => featuresArg.kind = "list" /\ AllStrings
        /\ FeaturesRejected =>
              /\ err.kind = "TypeError"
              /\ ~(featuresArg.kind = "list" /\ AllStrings)

C7_Witness ==
    /\ FeaturesRejected
    /\ Provided
    /\ featuresArg.kind = "tuple"
    /\ AllStrings
    /\ Len(featuresArg.elems) = 2

\* C7 as stated: any sequence of strings passes, whatever its sequence type
C7_AnySequenceOfStrings ==
    (Provided /\ featuresArg.kind \in {"list", "tuple"} /\ AllStrings)
        => ~FeaturesRejected

\* --------------------------------------------------------------- claim C8
\* C8: for 'theil', on return every ordered pair (i, j) of distinct features
\* was given to the primitive exactly once, column i first and column j
\* second; cell output[i][j] was assigned exactly once and holds the value
\* of that call, whatever the (j, i) call returned.
OrderedCalls(i, j) == {n \in 1..Len(calls) : calls[n][1] = i /\ calls[n][2] = j}

C8_EveryOrderedPairOnce ==
    (Returned /\ method = "theil") =>
        /\ Len(calls) = Len(output.columns) * (Len(output.columns) - 1)
        /\ \A i, j \in Requested :
              i # j =>
                /\ Cardinality(OrderedCalls(i, j)) = 1
                /\ writes[i][j] = 1
                /\ \A n \in OrderedCalls(i, j) : output.cells[i][j] = calls[n][3]

C8_Witness ==
    /\ Returned
    /\ method = "theil"
    /\ Len(output.columns) = 3
    /\ \E i, j \in Requested : output.cells[i][j] = 1 /\ output.cells[j][i] = 0

\* --------------------------------------------------------------- claim C9
\* C9: a NaN statistic is no error: the call that got one still returns, the
\* NaN is held by the cell(s) of its pair, and for every threshold, negative
\* ones included, neither feature of the pair is in the other's value set; a
\* feature whose off-diagonal entries are all NaN is no key.
NaNCalls == {n \in 1..Len(calls) : calls[n][3] = NaN}

C9_NaNNeverInMap ==
    /\ NaNCalls # {} => ~Raised
    /\ Returned =>
        /\ \A n \in NaNCalls :
            /\ output.cells[calls[n][1]][calls[n][2]] = NaN
            /\ Symmetric => output.cells[calls[n][2]][calls[n][1]] = NaN
            /\ calls[n][2] \notin CorrSet(calls[n][1])
            /\ calls[n][1] \notin CorrSet(calls[n][2])
        /\ \A k \in Requested :
            (\A j \in Requested \ {k} : output.cells[k][j] = NaN)
                => k \notin DOMAIN corr_features

C9_Witness ==
    /\ Returned
    /\ thr.v < 0
    /\ \E k, j, l \in Requested :
        /\ Cardinality({k, j, l}) = 3
        /\ \E n \in NaNCalls : {calls[n][1], calls[n][2]} = {k, j}
        /\ \E n \in NaNCalls : {calls[n][1], calls[n][2]} = {k, l}
        /\ k \notin DOMAIN corr_features
        /\ CorrSet(j) = {l}

\* -------------------------------------------------------------- claim C10
\* C10 (as amended): threshold extraction is column-wise for every method:
\* for each feature k the entries compared against thr are those of k's
\* COLUMN of the returned table (column label k, every row label j # k), and
\* the names stored for k are the row labels j of the entries of that column
\* that strictly exceed thr.
ColumnExceed(k) ==
    {j \in Range(output.index) \ {k} :
        /\ Loc(output, j, k) # NaN
        /\ thr.v # NaN
        /\ Loc(output, j, k) > thr.v}

RowExceed(k) ==
    {j \in Range(output.columns) \ {k} :
        /\ Loc(output, k, j) # NaN
        /\ thr.v # NaN
        /\ Loc(output, k, j) > thr.v}

C10_ExtractionIsColumnWise ==
    Returned =>
        \A k \in Requested :
            /\ CorrSet(k) = ColumnExceed(k)
            /\ (k \in DOMAIN corr_features) <=> (ColumnExceed(k) # {})

C10_Witness ==
    /\ Returned
    /\ method = "theil"
    /\ \E k \in Requested :
        /\ ColumnExceed(k) # RowExceed(k)
        /\ ColumnExceed(k) # {}
        /\ RowExceed(k) # {}
        /\ CorrSet(k) = ColumnExceed(k)

\* C10 as stated: extraction is row-wise (row label k, column labels j)
C10_ExtractionIsRowWise ==
    Returned =>
        \A k \in Requested :
            /\ CorrSet(k) = RowExceed(k)
            /\ (k \in DOMAIN corr_features) <=> (RowExceed(k) # {})
====
